---- MODULE Spec2Model ----
(***************************************************************************)
(* State-mirroring and broadcast subsystem of the web display server:      *)
(* DisplayBridge (display_bridge.cc) decorating the on-device display and  *)
(* WebDisplayServer (web_display_server.cc) keeping the session registry   *)
(* and fanning events out to the registered WebSocket sessions.            *)
(*                                                                         *)
(* Strings are sequences of characters.  A character is a one-character    *)
(* TLA+ string, or one of the named control characters below; the fixed    *)
(* pieces of the JSON text the code writes (keys, punctuation, string      *)
(* literals such as "dark") are kept as single multi-character pieces.     *)
(***************************************************************************)
EXTENDS Integers, Sequences, FiniteSets, TLC

\* ------------------------------------------------------------------------
\* Bounds of the model
\* ------------------------------------------------------------------------
MaxCalls == 2
MaxConnects == 2
MaxFd == 3
MaxStrLen == 1
MaxChatCalls == 42
MaxClears == 1
MaxSeqCalls == 1
MaxRegConnects == 3
MaxPassCalls == 2

\* ------------------------------------------------------------------------
\* Characters
\* ------------------------------------------------------------------------
DQ == "\""
BSL == "\\"
LF == "<LF>"
CR == "<CR>"
TAB == "<TAB>"
BSP == "<BS>"
FF == "<FF>"

CtrlChars == {LF, CR, TAB, BSP, FF}

\* the characters a caller's string is drawn from when the escaping is examined
Chars == {"a", "n", DQ, BSL} \cup CtrlChars

NULL == <<"<nullptr>">>

RECURSIVE Flatten(_)
Flatten(ss) == IF ss = <<>> THEN <<>> ELSE Head(ss) \o Flatten(Tail(ss))

Range(s) == {s[k] : k \in 1..Len(s)}

\* ------------------------------------------------------------------------
\* ProtocolCodec: escaping and the event texts
\* ------------------------------------------------------------------------

\* DisplayBridge::EscapeJson, one character of the switch
EscapeJsonChar(c) ==
    CASE c = DQ  -> <<BSL, DQ>>
      [] c = BSL -> <<BSL, BSL>>
      [] c = LF  -> <<BSL, "n">>
      [] c = CR  -> <<BSL, "r">>
      [] c = TAB -> <<BSL, "t">>
      [] c = BSP -> <<BSL, "b">>
      [] c = FF  -> <<BSL, "f">>
      [] OTHER   -> <<c>>

EscapeJson(str) == Flatten([k \in 1..Len(str) |-> EscapeJsonChar(str[k])])

\* the escaping loop inside WebDisplayServer::BroadcastChatMessage
EscapeContentChar(c) ==
    CASE c = DQ  -> <<BSL, DQ>>
      [] c = BSL -> <<BSL, BSL>>
      [] c = LF  -> <<BSL, "n">>
      [] c = CR  -> <<BSL, "r">>
      [] c = TAB -> <<BSL, "t">>
      [] OTHER   -> <<c>>

EscapeContent(str) == Flatten([k \in 1..Len(str) |-> EscapeContentChar(str[k])])

\* "{\"type\":\"<t>\"" as written by every event builder
TypeHead(t) == <<"{", DQ, "type", DQ, ":", DQ, t, DQ>>

\* ",\"<k>\":"
Key(k) == <<",", DQ, k, DQ, ":">>

\* WebDisplayServer::BroadcastStateUpdate: the value is concatenated as it is
StateUpdateMsg(field, value) ==
    TypeHead("state_update") \o Key("field") \o <<DQ>> \o field \o <<DQ>>
        \o Key("value") \o <<DQ>> \o value \o <<DQ, "}">>

\* WebDisplayServer::BroadcastChatMessage: content escaped, role as it is
ChatMessageMsg(role, content) ==
    TypeHead("chat_message") \o Key("role") \o <<DQ>> \o role \o <<DQ>>
        \o Key("content") \o <<DQ>> \o EscapeContent(content) \o <<DQ, "}">>

\* WebDisplayServer::BroadcastClearMessages
ClearMessagesMsg == TypeHead("clear_messages") \o <<"}">>

\* DisplayBridge::ShowNotification: message through EscapeJson
NotificationMsg(notification, duration_ms) ==
    TypeHead("notification") \o Key("message") \o <<DQ>> \o EscapeJson(notification)
        \o <<DQ>> \o Key("duration") \o <<ToString(duration_ms), "}">>

BoolText(b) == IF b THEN "true" ELSE "false"

BatteryText(st) ==
    <<DQ, "battery", DQ, ":", "{", DQ, "level", DQ, ":", ToString(st.battery_level),
      ",", DQ, "charging", DQ, ":", BoolText(st.battery_charging), "}">>

\* DisplayBridge::UpdateStatusBar: the status_bar event
StatusBarMsg(st) ==
    TypeHead("status_bar") \o <<",">> \o BatteryText(st)
        \o Key("network") \o <<DQ>> \o st.network_status \o <<DQ>>
        \o Key("volume") \o <<ToString(st.volume), "}">>

MessageText(m) ==
    <<"{", DQ, "role", DQ, ":", DQ>> \o EscapeJson(m.role) \o <<DQ>>
        \o Key("content") \o <<DQ>> \o EscapeJson(m.content) \o <<DQ, "}">>

RECURSIVE MessagesText(_)
MessagesText(ms) ==
    IF ms = <<>> THEN <<>>
    ELSE MessageText(Head(ms))
           \o (IF Len(ms) > 1 THEN <<",">> ELSE <<>>) \o MessagesText(Tail(ms))

\* DisplayBridge::GetFullStateJson: the serialisation (theme, network as they are)
FullStateMsg(st) ==
    TypeHead("full_state") \o <<",", DQ, "data", DQ, ":", "{">>
        \o <<DQ, "status", DQ, ":", DQ>> \o EscapeJson(st.status) \o <<DQ>>
        \o Key("emotion") \o <<DQ>> \o EscapeJson(st.emotion) \o <<DQ>>
        \o Key("theme") \o <<DQ>> \o st.theme \o <<DQ, ",">>
        \o BatteryText(st)
        \o Key("network") \o <<DQ>> \o st.network_status \o <<DQ>>
        \o Key("volume") \o <<ToString(st.volume)>>
        \o Key("messages") \o <<"[">> \o MessagesText(st.messages) \o <<"]", "}", "}">>

\* WebDisplayServer::ApiStateHandler: the literal empty_state
EmptyStateMsg == TypeHead("full_state") \o <<",", DQ, "data", DQ, ":", "{", "}", "}">>

\* ------------------------------------------------------------------------
\* What a client's JSON parser reads back (RFC 8259 strings): the string
\* values of a text in order; ok is FALSE when the text is not JSON.
\* ------------------------------------------------------------------------
Unescape(c) ==
    CASE c = DQ  -> DQ
      [] c = BSL -> BSL
      [] c = "n" -> LF
      [] c = "r" -> CR
      [] c = "t" -> TAB
      [] c = "b" -> BSP
      [] c = "f" -> FF
      [] OTHER   -> "invalid"

\* the number of consecutive backslashes that end just before position k
BackslashRun(txt, k) ==
    LET stops == {j \in 1..(k - 1) : txt[j] # BSL}
        last == IF stops = {} THEN 0 ELSE CHOOSE j \in stops : \A i \in stops : i <= j
    IN k - 1 - last

\* position k is the character of an escape sequence (it follows an escaping
\* backslash)
Escaped(txt, k) == BackslashRun(txt, k) % 2 = 1

\* the positions of the quotes that open or close a string, in order
QuotePositions(txt) ==
    SelectSeq([k \in 1..Len(txt) |-> k],
              LAMBDA k : txt[k] = DQ /\ ~Escaped(txt, k))

\* the string between the quotes at positions p and q, decoded
DecodeBetween(txt, p, q) ==
    LET kept == SelectSeq([i \in 1..(q - p - 1) |-> p + i],
                          LAMBDA k : Escaped(txt, k) \/ txt[k] # BSL)
    IN [i \in 1..Len(kept) |->
           IF Escaped(txt, kept[i]) THEN Unescape(txt[kept[i]]) ELSE txt[kept[i]]]

JsonStrings(txt) ==
    LET qs == QuotePositions(txt)
        n == Len(qs) \div 2
        InString(k) == \E i \in 1..n : qs[2 * i - 1] < k /\ k < qs[2 * i]
        strs == [i \in 1..n |-> DecodeBetween(txt, qs[2 * i - 1], qs[2 * i])]
    IN IF \/ Len(qs) % 2 = 1
          \/ \E k \in 1..Len(txt) :
                 \/ ~InString(k) /\ txt[k] \in Chars \ {DQ}
                 \/ InString(k) /\ ~Escaped(txt, k) /\ txt[k] \in CtrlChars
          \/ \E i \in 1..n : "invalid" \in Range(strs[i])
       THEN [ok |-> FALSE, strs |-> <<>>]
       ELSE [ok |-> TRUE, strs |-> strs]

\* ------------------------------------------------------------------------
\* Calls of the display interface (the inputs of the model)
\* ------------------------------------------------------------------------
MutatingOps == {"SetStatus", "ShowNotification", "SetEmotion", "SetChatMessage",
                "ClearChatMessages", "SetTheme", "UpdateStatusBar"}

\* a: first argument (a string, a Theme's name, or NULL), b: second string
\* argument, n: integer argument, id: the number of the call
MkCall(op, a, b, n) == [op |-> op, a |-> a, b |-> b, n |-> n, id |-> 0]

NoCall == MkCall("none", NULL, NULL, 0)

Threads == {"t1", "t2"}
Fds == 1..MaxFd

\* the calls the application threads make in Spec
\* the overrides that only forward to the wrapped display
PassThroughOps == {"SetPowerSaveMode", "SetupUI", "Lock", "Unlock"}

MainCalls ==
    { MkCall("SetStatus", <<"Idle">>, NULL, 0),
      MkCall("SetEmotion", <<"happy">>, NULL, 0),
      MkCall("ShowNotification", <<"Hi">>, NULL, 3000),
      MkCall("SetChatMessage", <<"user">>, <<"m">>, 0),
      MkCall("ClearChatMessages", NULL, NULL, 0),
      MkCall("SetTheme", NULL, NULL, 0),
      MkCall("UpdateStatusBar", NULL, NULL, 0) }

\* ------------------------------------------------------------------------
\* State
\* ------------------------------------------------------------------------
VARIABLES
    wrapped_display_,   \* DisplayBridge: TRUE when a display is wrapped
    web_server_,        \* DisplayBridge: TRUE when a server is attached
    wrapped,            \* the calls the wrapped display has received, in order
    current_theme_,     \* DisplayBridge: Theme* (the theme's name, or NULL)
    current_state_,     \* DisplayBridge: the DisplayState (StateStore)
    state_mutex_,       \* DisplayBridge: owner of the mutex, or "none"
    applied,            \* the calls applied to current_state_, in order
    server_,            \* WebDisplayServer: "null", "running", or "stopped"
                        \* (the handle after httpd_stop, before it is nulled)
    clients_,           \* WebDisplayServer: the registry, a sequence of fds
    clients_mutex_,     \* WebDisplayServer: owner of the mutex, or "none"
    get_state_callback_,\* WebDisplayServer: TRUE once the callback is set
    pc,                 \* position of each application thread
    call,               \* the call each application thread is executing
    msg,                \* BroadcastToClients: the message of each thread
    idx,                \* BroadcastToClients: loop position of each thread
    attempts,           \* the sends of the broadcast in progress: <<fd, ok>>
    pc_h,               \* position of the httpd task inside WsHandler
    fd_h,               \* WsHandler: fd of the handshake being handled
    state_h,            \* WsHandler: the text the state callback returned
    add_state,          \* WsHandler: current_state_ as it was when AddClient ran
    pc_c,               \* position of the thread that calls Start and Stop
    open,               \* transport: the fds with a live connection
    sent,               \* frames received by the session on each fd
    log_h,              \* the last line WsHandler, AddClient or RemoveClient logged
    ncalls,             \* number of display calls made so far
    nconn,              \* number of handshakes so far
    limits,             \* the limits on ncalls and nconn of the specification
    api_body,           \* ApiStateHandler: the body of the last response
    passed,             \* the pass-through calls the wrapped display has received
    start_ret,          \* what the last call of Start returned, or "none"
    ever_registered     \* the fds AddClient has ever put into the registry

vars == <<wrapped_display_, web_server_, wrapped, current_theme_, current_state_,
          state_mutex_, applied, server_, clients_, clients_mutex_,
          get_state_callback_, pc, call, msg, idx, attempts, pc_h, fd_h, state_h,
          add_state, pc_c, open, sent, log_h, ncalls, nconn, limits, api_body,
          passed, start_ret, ever_registered>>

bridgeVars == <<wrapped_display_, web_server_, wrapped, current_theme_,
                current_state_, state_mutex_, applied>>
threadVars == <<pc, call, msg, idx, attempts>>
httpdVars == <<pc_h, fd_h, state_h, add_state, log_h>>
serverVars == <<server_, clients_, clients_mutex_, get_state_callback_>>
reqVars == <<api_body, passed>>

\* ------------------------------------------------------------------------
\* StateStore
\* ------------------------------------------------------------------------
max_messages_ == 40
max_clients_ == 2

\* ThemeName storing an empty name for a null theme
ThemeName_NullIsEmpty(theme) == IF theme = NULL THEN <<>> ELSE theme

\* theme ? theme->name() : "dark"
ThemeName(theme) == IF theme = NULL THEN <<"dark">> ELSE theme

\* DisplayBridge::DisplayBridge: the defaults
InitialState(theme) ==
    [status |-> <<"Idle">>, emotion |-> <<"neutral">>,
     theme |-> ThemeName(theme),
     battery_level |-> -1, battery_charging |-> FALSE,
     network_status |-> <<"unknown">>, volume |-> -1,
     messages |-> <<>>, notification |-> <<>>]

\* UpdateBatteryStatus, UpdateNetworkStatus, UpdateVolumeStatus
RefreshStatusBar(st) ==
    [st EXCEPT !.battery_level = -1, !.battery_charging = FALSE,
               !.network_status = <<"unknown">>, !.volume = -1]

OrEmpty(s) == IF s = NULL THEN <<>> ELSE s

\* AppendMessage evicting as soon as the history is full
AppendMessage_EvictAtBound(ms, m) ==
    LET pushed == Append(ms, m)
    IN IF Len(pushed) >= max_messages_ THEN Tail(pushed) ELSE pushed

\* SetChatMessage: push_back, then erase(begin()) when over max_messages_
AppendMessage(ms, m) ==
    LET pushed == Append(ms, m)
    IN IF Len(pushed) > max_messages_ THEN Tail(pushed) ELSE pushed

\* the update each mutating override makes under state_mutex_
ApplyToStore(c, st) ==
    CASE c.op = "SetStatus" -> [st EXCEPT !.status = OrEmpty(c.a)]
      [] c.op = "ShowNotification" -> [st EXCEPT !.notification = OrEmpty(c.a)]
      [] c.op = "SetEmotion" ->
             [st EXCEPT !.emotion = IF c.a = NULL THEN <<"neutral">> ELSE c.a]
      [] c.op = "SetChatMessage" ->
             [st EXCEPT !.messages =
                 AppendMessage(@, [role |-> OrEmpty(c.a), content |-> OrEmpty(c.b)])]
      [] c.op = "ClearChatMessages" -> [st EXCEPT !.messages = <<>>]
      [] c.op = "SetTheme" ->
             [st EXCEPT !.theme = ThemeName(c.a)]
      [] c.op = "UpdateStatusBar" -> RefreshStatusBar(st)

\* the message each mutating override hands to the server, built from the
\* store as just updated
EventOf(c, st) ==
    CASE c.op = "SetStatus" -> StateUpdateMsg(<<"status">>, st.status)
      [] c.op = "ShowNotification" -> NotificationMsg(st.notification, c.n)
      [] c.op = "SetEmotion" -> StateUpdateMsg(<<"emotion">>, st.emotion)
      [] c.op = "SetChatMessage" -> ChatMessageMsg(OrEmpty(c.a), OrEmpty(c.b))
      [] c.op = "ClearChatMessages" -> ClearMessagesMsg
      [] c.op = "SetTheme" -> StateUpdateMsg(<<"theme">>, st.theme)
      [] c.op = "UpdateStatusBar" -> StatusBarMsg(st)

\* ------------------------------------------------------------------------
\* Registry
\* ------------------------------------------------------------------------
\* AddClient with the capacity test off by one
AddClient_OffByOne(cs, fd) == IF Len(cs) > max_clients_ THEN cs ELSE Append(cs, fd)

\* WebDisplayServer::AddClient
AddClient(cs, fd) == IF Len(cs) >= max_clients_ THEN cs ELSE Append(cs, fd)

\* RemoveClient erasing only the first entry that matches
RemoveClient_FirstOnly(cs, fd) ==
    IF \E k \in 1..Len(cs) : cs[k] = fd
    THEN LET k == CHOOSE k \in 1..Len(cs) : cs[k] = fd /\ \A j \in 1..(k - 1) : cs[j] # fd
         IN SubSeq(cs, 1, k - 1) \o SubSeq(cs, k + 1, Len(cs))
    ELSE cs

\* RemoveClient without the erase: the registry keeps its entries
RemoveClient_NoErase(cs, fd) == cs

\* WebDisplayServer::RemoveClient: remove_if + erase
RemoveClient(cs, fd) == SelectSeq(cs, LAMBDA c : c # fd)

\* a frame as the session on fd receives it; seq is the number of updates the
\* store had had when the frame's content was taken from it
Frame(payload, seq) == [payload |-> payload, seq |-> seq]

\* httpd_ws_send_frame_async: delivers only on a running server, to a live fd
Deliver(fd, ok, fr) ==
    IF ok /\ server_ = "running" /\ fd \in open
    THEN [sent EXCEPT ![fd] = Append(@, fr)]
    ELSE sent

PosOf(id) == CHOOSE k \in 1..Len(applied) : applied[k].id = id

NoFrame == Frame(<<>>, 0)
NoState == InitialState(NULL)

\* ------------------------------------------------------------------------
\* Construction
\* ------------------------------------------------------------------------
\* DisplayBridge::DisplayBridge and WebDisplayServer::WebDisplayServer
Constructed(hasDisplay, hasServer, theme, lim) ==
    /\ wrapped_display_ = hasDisplay
    /\ web_server_ = hasServer
    /\ wrapped = <<>>
    /\ current_theme_ = (IF hasDisplay THEN theme ELSE NULL)
    /\ current_state_ = InitialState(IF hasDisplay THEN theme ELSE NULL)
    /\ state_mutex_ = "none"
    /\ applied = <<>>
    /\ server_ = "null"
    /\ clients_ = <<>>
    /\ clients_mutex_ = "none"
    /\ get_state_callback_ = FALSE
    /\ pc = [t \in Threads |-> "idle"]
    /\ call = [t \in Threads |-> NoCall]
    /\ msg = [t \in Threads |-> <<>>]
    /\ idx = [t \in Threads |-> 0]
    /\ attempts = <<>>
    /\ pc_h = "idle"
    /\ fd_h = 0
    /\ state_h = NoFrame
    /\ add_state = NoState
    /\ log_h = "none"
    /\ pc_c = "idle"
    /\ open = {}
    /\ sent = [fd \in Fds |-> <<>>]
    /\ ncalls = 0
    /\ nconn = 0
    /\ limits = lim
    /\ api_body = <<>>
    /\ passed = <<>>
    /\ start_ret = "none"
    /\ ever_registered = {}

\* ------------------------------------------------------------------------
\* DisplayBridge: the mutating overrides, step by step
\* ------------------------------------------------------------------------
\* entry of a mutating override: forward to the wrapped display
BridgeCall(t, c) ==
    /\ pc[t] = "idle"
    /\ ncalls < limits.calls
    /\ LET cc == [c EXCEPT !.id = ncalls + 1] IN
        /\ wrapped' = (IF wrapped_display_ THEN Append(wrapped, cc) ELSE wrapped)
        /\ call' = [call EXCEPT ![t] = cc]
        /\ pc' = [pc EXCEPT ![t] = IF c.op = "SetTheme" THEN "theme" ELSE "lock"]
    /\ ncalls' = ncalls + 1
    /\ UNCHANGED <<wrapped_display_, web_server_, current_theme_, current_state_,
                   state_mutex_, applied, msg, idx, attempts, nconn, limits, reqVars, start_ret, ever_registered, open,
                   sent, pc_c>>
    /\ UNCHANGED <<serverVars, httpdVars>>

\* SetTheme: current_theme_ = theme, before the mutex is taken
BridgeSetTheme(t) ==
    /\ pc[t] = "theme"
    /\ current_theme_' = call[t].a
    /\ pc' = [pc EXCEPT ![t] = "lock"]
    /\ UNCHANGED <<wrapped_display_, web_server_, wrapped, current_state_,
                   state_mutex_, applied, call, msg, idx, attempts, ncalls, nconn,
                   limits, reqVars, start_ret, ever_registered, open, sent, pc_c>>
    /\ UNCHANGED <<serverVars, httpdVars>>

\* BridgeApply returning before the store is updated when no broadcast can run
BridgeApply_ReturnEarlyWithoutServer(t) ==
    /\ pc[t] = "lock"
    /\ state_mutex_ = "none"
    /\ LET st == ApplyToStore(call[t], current_state_) IN
        IF web_server_ /\ server_ # "null"
        THEN /\ current_state_' = st
             /\ applied' = Append(applied, call[t])
             /\ msg' = [msg EXCEPT ![t] = EventOf(call[t], st)]
             /\ pc' = [pc EXCEPT ![t] = "clients_lock"]
             /\ state_mutex_' = t
             /\ call' = call
        ELSE /\ pc' = [pc EXCEPT ![t] = "idle"]
             /\ call' = [call EXCEPT ![t] = NoCall]
             /\ UNCHANGED <<msg, state_mutex_, current_state_, applied>>
    /\ UNCHANGED <<wrapped_display_, web_server_, wrapped, current_theme_, idx,
                   attempts, ncalls, nconn, limits, reqVars, start_ret, ever_registered, open, sent, pc_c>>
    /\ UNCHANGED <<serverVars, httpdVars>>

\* BridgeApply with state_mutex_ released before the broadcast
BridgeApply_UnlockBeforeBroadcast(t) ==
    /\ pc[t] = "lock"
    /\ state_mutex_ = "none"
    /\ LET st == ApplyToStore(call[t], current_state_) IN
        /\ current_state_' = st
        /\ applied' = Append(applied, call[t])
        /\ IF web_server_ /\ server_ # "null"
           THEN /\ msg' = [msg EXCEPT ![t] = EventOf(call[t], st)]
                /\ pc' = [pc EXCEPT ![t] = "clients_lock"]
                /\ call' = call
           ELSE /\ pc' = [pc EXCEPT ![t] = "idle"]
                /\ call' = [call EXCEPT ![t] = NoCall]
                /\ msg' = msg
    /\ UNCHANGED <<wrapped_display_, web_server_, wrapped, current_theme_, idx,
                   attempts, ncalls, nconn, limits, reqVars, start_ret, ever_registered, open, sent, pc_c, state_mutex_>>
    /\ UNCHANGED <<serverVars, httpdVars>>

\* lock_guard(state_mutex_), the update of current_state_, and the entry of
\* the Broadcast* call down to BroadcastToClients' test of server_; the
\* mutex stays held while the broadcast runs
BridgeApply(t) ==
    /\ pc[t] = "lock"
    /\ state_mutex_ = "none"
    /\ LET st == ApplyToStore(call[t], current_state_) IN
        /\ current_state_' = st
        /\ applied' = Append(applied, call[t])
        /\ IF web_server_ /\ server_ # "null"
           THEN /\ msg' = [msg EXCEPT ![t] = EventOf(call[t], st)]
                /\ pc' = [pc EXCEPT ![t] = "clients_lock"]
                /\ state_mutex_' = t
                /\ call' = call
           ELSE /\ pc' = [pc EXCEPT ![t] = "idle"]
                /\ call' = [call EXCEPT ![t] = NoCall]
                /\ UNCHANGED <<msg, state_mutex_>>
    /\ UNCHANGED <<wrapped_display_, web_server_, wrapped, current_theme_, idx,
                   attempts, ncalls, nconn, limits, reqVars, start_ret, ever_registered, open, sent, pc_c>>
    /\ UNCHANGED <<serverVars, httpdVars>>

\* BroadcastToClients: lock_guard(clients_mutex_)
BroadcastLock(t) ==
    /\ pc[t] = "clients_lock"
    /\ clients_mutex_ = "none"
    /\ clients_mutex_' = t
    /\ idx' = [idx EXCEPT ![t] = 1]
    /\ pc' = [pc EXCEPT ![t] = "send"]
    /\ UNCHANGED <<bridgeVars, server_, clients_, get_state_callback_, call, msg,
                   attempts, ncalls, nconn, limits, reqVars, start_ret, ever_registered, open, sent, pc_c>>
    /\ UNCHANGED httpdVars

\* BroadcastSend leaving the loop at the first send that fails
BroadcastSend_AbortOnFailure(t, ok) ==
    /\ pc[t] = "send"
    /\ idx[t] <= Len(clients_)
    /\ LET fd == clients_[idx[t]]
           done == ok /\ server_ = "running" /\ fd \in open
       IN /\ sent' = Deliver(fd, ok, Frame(msg[t], PosOf(call[t].id)))
          /\ attempts' = Append(attempts, <<fd, done>>)
          /\ idx' = [idx EXCEPT ![t] = IF done THEN @ + 1 ELSE Len(clients_) + 1]
    /\ UNCHANGED <<bridgeVars, serverVars, httpdVars, pc, call, msg, ncalls, nconn,
                   limits, reqVars, start_ret, ever_registered, open, pc_c>>

\* BroadcastToClients: one iteration of the loop over clients_
BroadcastSend(t, ok) ==
    /\ pc[t] = "send"
    /\ idx[t] <= Len(clients_)
    /\ LET fd == clients_[idx[t]]
           done == ok /\ server_ = "running" /\ fd \in open
       IN /\ sent' = Deliver(fd, ok, Frame(msg[t], PosOf(call[t].id)))
          /\ attempts' = Append(attempts, <<fd, done>>)
    /\ idx' = [idx EXCEPT ![t] = @ + 1]
    /\ UNCHANGED <<bridgeVars, serverVars, httpdVars, pc, call, msg, ncalls, nconn,
                   limits, reqVars, start_ret, ever_registered, open, pc_c>>

\* BroadcastToClients returns, then the override: both mutexes are released
BroadcastReturn(t) ==
    /\ pc[t] = "send"
    /\ idx[t] > Len(clients_)
    /\ clients_mutex_' = "none"
    /\ state_mutex_' = "none"
    /\ attempts' = <<>>
    /\ idx' = [idx EXCEPT ![t] = 0]
    /\ msg' = [msg EXCEPT ![t] = <<>>]
    /\ call' = [call EXCEPT ![t] = NoCall]
    /\ pc' = [pc EXCEPT ![t] = "idle"]
    /\ UNCHANGED <<wrapped_display_, web_server_, wrapped, current_theme_,
                   current_state_, applied, server_, clients_, get_state_callback_,
                   ncalls, nconn, limits, reqVars, start_ret, ever_registered, open, sent, pc_c>>
    /\ UNCHANGED httpdVars

\* ------------------------------------------------------------------------
\* WebDisplayServer: Start, Stop, SetGetStateCallback
\* ------------------------------------------------------------------------
\* Start with the handle left set when httpd_start fails
Start_KeepHandleOnFailure(ok) ==
    /\ pc_c = "idle"
    /\ server_ \in {"null", "running"}
    /\ IF server_ # "null"
       THEN /\ start_ret' = "true"
            /\ server_' = server_
       ELSE /\ server_' = (IF ok THEN "running" ELSE "stopped")
            /\ start_ret' = (IF ok THEN "true" ELSE "false")
    /\ UNCHANGED <<bridgeVars, threadVars, httpdVars, clients_, clients_mutex_,
                   get_state_callback_, pc_c, open, sent, ncalls, nconn, limits,
                   reqVars, ever_registered>>

\* Start: returns true at once on a server that is running; otherwise
\* httpd_start succeeds (ok) or fails, and its result is returned
Start(ok) ==
    /\ pc_c = "idle"
    /\ server_ \in {"null", "running"}
    /\ IF server_ # "null"
       THEN /\ start_ret' = "true"
            /\ server_' = server_
       ELSE /\ server_' = (IF ok THEN "running" ELSE "null")
            /\ start_ret' = (IF ok THEN "true" ELSE "false")
    /\ UNCHANGED <<bridgeVars, threadVars, httpdVars, clients_, clients_mutex_,
                   get_state_callback_, pc_c, open, sent, ncalls, nconn, limits,
                   reqVars, ever_registered>>

SetGetStateCallback ==
    /\ pc_c = "idle"
    /\ ~get_state_callback_
    /\ get_state_callback_' = TRUE
    /\ UNCHANGED <<bridgeVars, threadVars, httpdVars, server_, clients_,
                   clients_mutex_, pc_c, open, sent, ncalls, nconn, limits, reqVars, start_ret, ever_registered>>

\* Stop: httpd_stop(server_) waits for the httpd task and closes its sockets
StopHttpd ==
    /\ pc_c = "idle"
    /\ server_ = "running"
    /\ pc_h = "idle"
    /\ server_' = "stopped"
    /\ open' = {}
    /\ sent' = [fd \in Fds |-> <<>>]
    /\ pc_c' = "null"
    /\ UNCHANGED <<bridgeVars, threadVars, httpdVars, clients_, clients_mutex_,
                   get_state_callback_, ncalls, nconn, limits, reqVars, start_ret, ever_registered>>

\* Stop: server_ = nullptr
StopNull ==
    /\ pc_c = "null"
    /\ server_' = "null"
    /\ pc_c' = "clear"
    /\ UNCHANGED <<bridgeVars, threadVars, httpdVars, clients_, clients_mutex_,
                   get_state_callback_, open, sent, ncalls, nconn, limits, reqVars, start_ret, ever_registered>>

\* Stop: lock_guard(clients_mutex_); clients_.clear()
StopClear ==
    /\ pc_c = "clear"
    /\ clients_mutex_ = "none"
    /\ clients_' = <<>>
    /\ pc_c' = "idle"
    /\ UNCHANGED <<bridgeVars, threadVars, httpdVars, server_, clients_mutex_,
                   get_state_callback_, open, sent, ncalls, nconn, limits, reqVars, start_ret, ever_registered>>

\* ------------------------------------------------------------------------
\* WebDisplayServer::WsHandler, run by the httpd task
\* ------------------------------------------------------------------------
\* WsHandshake with AddClient returning while clients_mutex_ is still locked
WsHandshake_KeepsRegistryLock(fd) ==
    /\ server_ = "running"
    /\ pc_h = "idle"
    /\ fd \notin open
    /\ \A g \in Fds : g < fd => g \in open
    /\ nconn < limits.conns
    /\ clients_mutex_ = "none"
    /\ open' = open \cup {fd}
    /\ sent' = [sent EXCEPT ![fd] = <<>>]
    /\ clients_' = AddClient(clients_, fd)
    /\ log_h' = (IF clients_' = clients_ THEN "Max clients reached"
                 ELSE "Client connected")
    /\ fd_h' = fd
    /\ add_state' = current_state_
    /\ pc_h' = "callback"
    /\ ever_registered' = (IF clients_' = clients_ THEN ever_registered
                           ELSE ever_registered \cup {fd})
    /\ nconn' = nconn + 1
    /\ clients_mutex_' = "httpd"
    /\ UNCHANGED <<bridgeVars, threadVars, server_,
                   get_state_callback_, state_h, pc_c, ncalls, limits, reqVars,
                   start_ret>>

\* a handshake; the transport hands out the lowest free fd: AddClient(fd)
WsHandshake(fd) ==
    /\ server_ = "running"
    /\ pc_h = "idle"
    /\ fd \notin open
    /\ \A g \in Fds : g < fd => g \in open
    /\ nconn < limits.conns
    /\ clients_mutex_ = "none"
    /\ open' = open \cup {fd}
    /\ sent' = [sent EXCEPT ![fd] = <<>>]
    /\ clients_' = AddClient(clients_, fd)
    /\ log_h' = (IF clients_' = clients_ THEN "Max clients reached"
                 ELSE "Client connected")
    /\ fd_h' = fd
    /\ add_state' = current_state_
    /\ pc_h' = "callback"
    /\ ever_registered' = (IF clients_' = clients_ THEN ever_registered
                           ELSE ever_registered \cup {fd})
    /\ nconn' = nconn + 1
    /\ UNCHANGED <<bridgeVars, threadVars, server_, clients_mutex_,
                   get_state_callback_, state_h, pc_c, ncalls, limits, reqVars,
                   start_ret>>

\* the state callback, DisplayBridge::GetFullStateJson, under state_mutex_
WsGetState ==
    /\ pc_h = "callback"
    /\ IF get_state_callback_
       THEN /\ state_mutex_ = "none"
            /\ current_state_' = RefreshStatusBar(current_state_)
            /\ state_h' = Frame(FullStateMsg(current_state_'), Len(applied))
            /\ pc_h' = "send"
            /\ UNCHANGED <<fd_h, add_state>>
       ELSE /\ pc_h' = "idle"
            /\ fd_h' = 0
            /\ add_state' = NoState
            /\ UNCHANGED <<current_state_, state_h>>
    /\ UNCHANGED <<wrapped_display_, web_server_, wrapped, current_theme_,
                   state_mutex_, applied, threadVars, serverVars, log_h, pc_c, open,
                   sent, ncalls, nconn, limits, reqVars, start_ret, ever_registered>>

\* httpd_ws_send_frame_async of the initial state to the new fd
WsSendInitial(ok) ==
    /\ pc_h = "send"
    /\ sent' = Deliver(fd_h, ok, state_h)
    /\ log_h' = (IF sent' = sent THEN "Failed to send initial state" ELSE log_h)
    /\ pc_h' = "idle"
    /\ fd_h' = 0
    /\ add_state' = NoState
    /\ state_h' = NoFrame
    /\ UNCHANGED <<bridgeVars, threadVars, serverVars, pc_c, open, ncalls, nconn,
                   limits, reqVars, start_ret, ever_registered>>

\* a close frame from the session on fd: RemoveClient(fd)
WsCloseFrame(fd) ==
    /\ server_ = "running"
    /\ pc_h = "idle"
    /\ fd \in open
    /\ clients_mutex_ = "none"
    /\ clients_' = RemoveClient(clients_, fd)
    /\ log_h' = (IF clients_' = clients_ THEN "WebSocket close frame received"
                 ELSE "Client removed")
    /\ UNCHANGED <<bridgeVars, threadVars, server_, clients_mutex_,
                   get_state_callback_, pc_h, fd_h, state_h, add_state, pc_c, open,
                   sent, ncalls, nconn, limits, reqVars, start_ret, ever_registered>>

\* the transport: the connection on fd ends and its socket is closed; the
\* registry is not told
SockClose(fd) ==
    /\ server_ = "running"
    /\ pc_h = "idle"
    /\ fd \in open
    /\ open' = open \ {fd}
    /\ sent' = [sent EXCEPT ![fd] = <<>>]
    /\ UNCHANGED <<bridgeVars, threadVars, serverVars, httpdVars, pc_c, ncalls,
                   nconn, limits, reqVars, start_ret, ever_registered>>

\* an inbound text frame from the session on fd: logged, nothing else
WsTextFrame(fd) ==
    /\ server_ = "running"
    /\ pc_h = "idle"
    /\ fd \in open
    /\ log_h' = "Received WS message"
    /\ UNCHANGED <<bridgeVars, threadVars, serverVars, pc_h, fd_h, state_h,
                   add_state, pc_c, open, sent, ncalls, nconn, limits, reqVars,
                   start_ret, ever_registered>>

\* WebDisplayServer::ApiStateHandler: GET /api/display/state
ApiStateHandler ==
    /\ server_ = "running"
    /\ pc_h = "idle"
    /\ api_body' = EmptyStateMsg
    /\ UNCHANGED <<bridgeVars, threadVars, serverVars, httpdVars, pc_c, open, sent,
                   ncalls, nconn, limits, passed, start_ret, ever_registered>>

\* ------------------------------------------------------------------------
\* DisplayBridge: the pass-through overrides
\* ------------------------------------------------------------------------
\* PassThrough with SetupUI putting the store back to its defaults
PassThrough_SetupUIResetsState(t, op) ==
    /\ pc[t] = "idle"
    /\ Len(passed) < limits.passes
    /\ wrapped_display_
    /\ passed' = Append(passed, op)
    /\ current_state_' = (IF op = "SetupUI" THEN InitialState(current_theme_)
                          ELSE current_state_)
    /\ UNCHANGED <<wrapped_display_, web_server_, wrapped, current_theme_,
                   state_mutex_, applied, threadVars, serverVars, httpdVars, pc_c,
                   open, sent, ncalls, nconn, limits, api_body, start_ret,
                   ever_registered>>

\* SetPowerSaveMode, SetupUI, Lock, Unlock: forward to the wrapped display
PassThrough(t, op) ==
    /\ pc[t] = "idle"
    /\ Len(passed) < limits.passes
    /\ wrapped_display_
    /\ passed' = Append(passed, op)
    /\ UNCHANGED <<bridgeVars, threadVars, serverVars, httpdVars, pc_c, open, sent,
                   ncalls, nconn, limits, api_body, start_ret, ever_registered>>

\* ------------------------------------------------------------------------
\* Specifications
\* ------------------------------------------------------------------------
ServerStep ==
    \/ \E ok \in BOOLEAN : Start(ok)
    \/ SetGetStateCallback
    \/ StopHttpd
    \/ StopNull
    \/ StopClear
    \/ \E fd \in Fds : WsHandshake(fd)
    \/ WsGetState
    \/ \E ok \in BOOLEAN : WsSendInitial(ok)
    \/ \E fd \in Fds : WsCloseFrame(fd)
    \/ \E fd \in Fds : SockClose(fd)

BridgeStep(t) ==
    \/ BridgeSetTheme(t)
    \/ BridgeApply(t)
    \/ BroadcastLock(t)
    \/ \E ok \in BOOLEAN : BroadcastSend(t, ok)
    \/ BroadcastReturn(t)

\* concurrent application threads, a small set of calls
Init == Constructed(TRUE, TRUE, NULL, [calls |-> MaxCalls, conns |-> MaxConnects, passes |-> 0])

Next ==
    \/ \E t \in Threads : \E c \in MainCalls : BridgeCall(t, c)
    \/ \E t \in Threads : BridgeStep(t)
    \/ ServerStep

Spec == Init /\ [][Next]_vars

\* one application thread, every operation, arguments drawn from all the
\* strings of up to MaxStrLen characters
RECURSIVE StringsUpTo(_)
StringsUpTo(n) ==
    IF n = 0 THEN {<<>>}
    ELSE LET shorter == StringsUpTo(n - 1)
         IN shorter \cup {Append(s, c) : s \in shorter, c \in Chars}

ArgStrings == StringsUpTo(MaxStrLen) \cup {NULL}
ThemeNames == {NULL, <<"light">>, <<DQ>>}
RoleNames == {NULL, <<"user">>, <<DQ>>}

SeqCalls ==
    {MkCall(op, s, NULL, 0) : op \in {"SetStatus", "SetEmotion"}, s \in ArgStrings}
    \cup {MkCall("ShowNotification", s, NULL, 3000) : s \in ArgStrings}
    \cup {MkCall("SetChatMessage", r, s, 0) : r \in RoleNames, s \in ArgStrings}
    \cup {MkCall("SetTheme", th, NULL, 0) : th \in ThemeNames}
    \cup {MkCall("ClearChatMessages", NULL, NULL, 0),
          MkCall("UpdateStatusBar", NULL, NULL, 0)}

InitSeq ==
    \E hasDisplay \in BOOLEAN, hasServer \in BOOLEAN, theme \in {NULL, <<"light">>} :
        /\ hasDisplay \/ theme = NULL
        /\ Constructed(hasDisplay, hasServer, theme,
                       [calls |-> MaxSeqCalls, conns |-> 1, passes |-> 0])

NextSeq ==
    \/ \E c \in SeqCalls : BridgeCall("t1", c)
    \/ BridgeStep("t1")
    \/ ServerStep

SpecSeq == InitSeq /\ [][NextSeq]_vars

\* the registry: one application thread, enough handshakes to fill it
InitReg == Constructed(TRUE, TRUE, NULL, [calls |-> MaxSeqCalls, conns |-> MaxRegConnects, passes |-> 0])

NextReg ==
    \/ \E c \in MainCalls : BridgeCall("t1", c)
    \/ BridgeStep("t1")
    \/ ServerStep

SpecReg == InitReg /\ [][NextReg]_vars

\* one application thread that also makes pass-through calls, and clients
\* that also send text frames and GET /api/display/state
InitPass ==
    Constructed(TRUE, TRUE, NULL,
                [calls |-> MaxSeqCalls, conns |-> 1, passes |-> MaxPassCalls])

NextPass ==
    \/ \E c \in MainCalls : BridgeCall("t1", c)
    \/ BridgeStep("t1")
    \/ ServerStep
    \/ \E op \in PassThroughOps : PassThrough("t1", op)
    \/ \E fd \in Fds : WsTextFrame(fd)
    \/ ApiStateHandler

SpecPass == InitPass /\ [][NextPass]_vars

\* SpecReg with the steps every running thread goes on to take: an
\* application thread inside a call, the httpd task inside WsHandler, and
\* Stop once httpd_stop has returned
FairReg ==
    /\ SpecReg
    /\ WF_vars(BridgeStep("t1"))
    /\ WF_vars(WsGetState \/ \E ok \in BOOLEAN : WsSendInitial(ok))
    /\ WF_vars(StopNull \/ StopClear)

\* two application threads that set the same fields to different values
RaceCalls ==
    { MkCall("SetStatus", <<"A">>, NULL, 0),
      MkCall("SetStatus", <<"B">>, NULL, 0),
      MkCall("SetTheme", NULL, NULL, 0),
      MkCall("SetTheme", <<"light">>, NULL, 0) }

InitRace ==
    Constructed(TRUE, TRUE, NULL, [calls |-> MaxCalls, conns |-> 1, passes |-> 0])

NextRace ==
    \/ \E t \in Threads : \E c \in RaceCalls : BridgeCall(t, c)
    \/ \E t \in Threads : BridgeStep(t)
    \/ ServerStep

SpecRace == InitRace /\ [][NextRace]_vars

\* SpecRace with the steps every running thread goes on to take: each
\* application thread inside a call, the httpd task inside WsHandler, and
\* Stop once httpd_stop has returned
FairRace ==
    /\ SpecRace
    /\ \A t \in Threads : WF_vars(BridgeStep(t))
    /\ WF_vars(WsGetState \/ \E ok \in BOOLEAN : WsSendInitial(ok))
    /\ WF_vars(StopNull \/ StopClear)

\* the chat history: one thread appends m0, m1, ... while another clears
ChatCall == MkCall("SetChatMessage", <<"user">>, <<"m", ToString(ncalls)>>, 0)
ClearCall == MkCall("ClearChatMessages", NULL, NULL, 0)

Clears(log) == Cardinality({k \in 1..Len(log) : log[k].op = "ClearChatMessages"})

InitChat == Constructed(TRUE, TRUE, NULL, [calls |-> MaxChatCalls, conns |-> 0, passes |-> 0])

NextChat ==
    \/ BridgeCall("t1", ChatCall)
    \/ Clears(wrapped) < MaxClears /\ BridgeCall("t2", ClearCall)
    \/ \E t \in Threads : BridgeApply(t)

SpecChat == InitChat /\ [][NextChat]_vars

\* ------------------------------------------------------------------------
\* Properties
\* ------------------------------------------------------------------------
IsFullState(fr) == Len(fr.payload) >= 7 /\ fr.payload[7] = "full_state"
IsEvent(fr) == ~IsFullState(fr)

\* C1: the full_state a connecting session is sent carries the store as it
\* was when the session was added to the registry, and no event whose
\* mutation is already contained in that full_state reaches the session.
C1_FullStateAsOfAdd ==
    /\ pc_h = "send" =>
           state_h.payload = FullStateMsg(RefreshStatusBar(add_state))
    /\ \A fd \in Fds : \A i, j \in 1..Len(sent[fd]) :
           IsFullState(sent[fd][i]) /\ IsEvent(sent[fd][j])
               => sent[fd][j].seq > sent[fd][i].seq

\* C2: the full_state is the first frame a session receives, and the events
\* that follow it are the mutations applied after the snapshot, in order.
C2_FullStateFirst ==
    \A fd \in Fds : \A i \in 1..Len(sent[fd]) :
        IsFullState(sent[fd][i]) =>
            /\ i = 1
            /\ \A j \in 2..Len(sent[fd]) :
                   /\ sent[fd][j].seq > sent[fd][1].seq
                   /\ j > 2 => sent[fd][j].seq > sent[fd][j - 1].seq

\* C3: the events a session receives are in the order in which their
\* mutations were applied to the store.
C3_EventsInStoreOrder ==
    \A fd \in Fds : \A i, j \in 1..Len(sent[fd]) :
        i < j /\ IsEvent(sent[fd][i]) /\ IsEvent(sent[fd][j])
            => sent[fd][i].seq <= sent[fd][j].seq

\* a session that has received the events of two mutations made concurrently
C3_Witness ==
    \E fd \in Fds : \E i, j \in 1..Len(sent[fd]) :
        /\ i < j
        /\ IsEvent(sent[fd][i]) /\ IsEvent(sent[fd][j])
        /\ sent[fd][i].seq < sent[fd][j].seq
        /\ applied[sent[fd][i].seq].id > applied[sent[fd][j].seq].id

\* the messages appended since the last ClearChatMessages, in the order in
\* which they were applied
RECURSIVE SinceClear(_)
SinceClear(log) ==
    IF log = <<>> THEN <<>>
    ELSE LET c == log[Len(log)]
             before == SubSeq(log, 1, Len(log) - 1)
         IN IF c.op = "ClearChatMessages" THEN <<>>
            ELSE IF c.op = "SetChatMessage"
                 THEN Append(SinceClear(before),
                             [role |-> OrEmpty(c.a), content |-> OrEmpty(c.b)])
            ELSE SinceClear(before)

LastN(q, n) == IF Len(q) <= n THEN q ELSE SubSeq(q, Len(q) - n + 1, Len(q))

\* C4: the stored history never exceeds 40 entries and is the most recent
\* min(n, 40) messages appended since the last clear, in append order.
C4_HistoryBounded ==
    /\ Len(current_state_.messages) <= 40
    /\ current_state_.messages = LastN(SinceClear(applied), 40)

\* m0..m40 appended: the history is m1..m40
C4_Witness ==
    /\ Len(SinceClear(applied)) = 41
    /\ Len(applied) = 41
    /\ Len(current_state_.messages) = 40
    /\ current_state_.messages[1].content = <<"m", "1">>
    /\ current_state_.messages[40].content = <<"m", "40">>

\* C5: the registry never holds more than max_clients_ sessions; a connect
\* attempt made when it is full leaves the registry and the frames of every
\* other session as they were, through the whole handshake handler.
Rejected == pc_h # "idle" /\ log_h = "Max clients reached"

C5_FullRegistryRejects ==
    /\ [](Len(clients_) <= max_clients_)
    /\ [][\A fd \in Fds :
            WsHandshake(fd) /\ Len(clients_) >= max_clients_
                => /\ clients_' = clients_
                   /\ \A g \in Fds \ {fd} : sent'[g] = sent[g]]_vars
    /\ [][Rejected /\ (WsGetState \/ \E ok \in BOOLEAN : WsSendInitial(ok))
            => /\ clients_' = clients_
               /\ \A g \in Fds \ {fd_h} : sent'[g] = sent[g]]_vars

\* a connect attempt has just been rejected while another session is
\* registered and has received frames
C5_Witness ==
    /\ Rejected
    /\ pc_h = "callback"
    /\ Len(clients_) = max_clients_
    /\ \E g \in Fds \ {fd_h} : g \in Range(clients_) /\ sent[g] # <<>>

\* C6: RemoveClient for a handle that is not in the registry leaves the
\* registry as it is, and removing a handle a second time changes nothing.
C6_RemoveAbsentIsNoOp ==
    /\ [][\A fd \in Fds :
            WsCloseFrame(fd) /\ fd \notin Range(clients_) => clients_' = clients_]_vars
    /\ [][\A fd \in Fds :
            WsCloseFrame(fd) => /\ fd \notin Range(clients_')
                                /\ RemoveClient(clients_', fd) = clients_']_vars

\* a close frame for an unregistered handle has been handled while other
\* sessions are registered
C6_Witness ==
    /\ log_h = "WebSocket close frame received"
    /\ pc_h = "idle"
    /\ clients_ # <<>>

\* C7, counting per registry entry: in a broadcast every entry of the
\* registry is sent the payload once, whichever sends fail.
AttemptedFds == [k \in 1..Len(attempts) |-> attempts[k][1]]

C7_FailureDoesNotAbort ==
    \A t \in Threads :
        pc[t] = "send" =>
            /\ AttemptedFds = SubSeq(clients_, 1, idx[t] - 1)
            /\ idx[t] > Len(clients_) => AttemptedFds = clients_
            /\ \A k \in 1..Len(attempts) :
                   attempts[k][2] /\ attempts[k][1] \in open =>
                       \E i \in 1..Len(sent[attempts[k][1]]) :
                           sent[attempts[k][1]][i] = Frame(msg[t], PosOf(call[t].id))

\* C7, counting per session: when a broadcast has gone through the registry,
\* every registered session has been sent the payload exactly once.
C7_EachSessionSentOnce ==
    \A t \in Threads :
        pc[t] = "send" /\ idx[t] > Len(clients_) =>
            \A fd \in Range(clients_) :
                Cardinality({k \in 1..Len(attempts) : attempts[k][1] = fd}) = 1

\* a broadcast is complete in which the first send failed and the second
\* was delivered
C7_Witness ==
    \E t \in Threads :
        /\ pc[t] = "send"
        /\ idx[t] > Len(clients_)
        /\ Len(attempts) = 2
        /\ ~attempts[1][2]
        /\ attempts[2][2]
        /\ attempts[1][1] # attempts[2][1]

\* C8: a session whose send failed is eventually removed from the registry.
SendFailed(fd) == \E k \in 1..Len(attempts) : attempts[k] = <<fd, FALSE>>

C8_FailedSessionRemoved ==
    \A fd \in Fds : SendFailed(fd) ~> (fd \notin Range(clients_))

\* the store shows the effect of call c
Reflects(c, st) ==
    IF c.op = "SetChatMessage"
    THEN /\ st.messages # <<>>
         /\ st.messages[Len(st.messages)] =
                [role |-> OrEmpty(c.a), content |-> OrEmpty(c.b)]
    ELSE ApplyToStore(c, st) = st

\* C9: a mutating call forwards to the wrapped display, then updates the
\* store, then requests the broadcast; the display and the store have both
\* been updated when the call returns, whatever became of the broadcast.
C9_ForwardStoreBroadcast ==
    /\ wrapped_display_ =>
           \A k \in 1..Len(applied) : \E j \in 1..Len(wrapped) : wrapped[j] = applied[k]
    /\ \A t \in Threads :
           msg[t] # <<>> => \E k \in 1..Len(applied) : applied[k] = call[t]
    /\ \A fd \in Fds : \A i \in 1..Len(sent[fd]) :
           IsEvent(sent[fd][i]) => sent[fd][i].seq \in 1..Len(applied)
    /\ (\A t \in Threads : pc[t] = "idle") =>
           /\ Len(applied) = ncalls
           /\ wrapped_display_ => wrapped = applied
           /\ ncalls > 0 => Reflects(applied[Len(applied)], current_state_)

\* a call whose only send has failed: display and store are updated
C9_Witness ==
    /\ pc["t1"] = "send"
    /\ idx["t1"] > Len(clients_)
    /\ Len(attempts) = 1
    /\ ~attempts[1][2]
    /\ wrapped # <<>>
    /\ wrapped[Len(wrapped)] = call["t1"]
    /\ applied[Len(applied)] = call["t1"]
    /\ Reflects(call["t1"], current_state_)

\* the strings a client reads from the event of call c when every
\* caller-supplied string comes back as it was given
ExpectedStrings(c) ==
    CASE c.op = "SetStatus" ->
             << <<"type">>, <<"state_update">>, <<"field">>, <<"status">>,
                <<"value">>, OrEmpty(c.a) >>
      [] c.op = "SetEmotion" ->
             << <<"type">>, <<"state_update">>, <<"field">>, <<"emotion">>,
                <<"value">>, IF c.a = NULL THEN <<"neutral">> ELSE c.a >>
      [] c.op = "SetTheme" ->
             << <<"type">>, <<"state_update">>, <<"field">>, <<"theme">>,
                <<"value">>, IF c.a = NULL THEN <<"dark">> ELSE c.a >>
      [] c.op = "ShowNotification" ->
             << <<"type">>, <<"notification">>, <<"message">>, OrEmpty(c.a),
                <<"duration">> >>
      [] c.op = "SetChatMessage" ->
             << <<"type">>, <<"chat_message">>, <<"role">>, OrEmpty(c.a),
                <<"content">>, OrEmpty(c.b) >>
      [] c.op = "ClearChatMessages" -> << <<"type">>, <<"clear_messages">> >>
      [] c.op = "UpdateStatusBar" ->
             << <<"type">>, <<"status_bar">>, <<"battery">>, <<"level">>,
                <<"charging">>, <<"network">>, <<"unknown">>, <<"volume">> >>

\* C10: every caller-supplied string embedded in an emitted event decodes to
\* the string that was supplied.
C10_EmittedStringsRoundTrip ==
    \A fd \in Fds : \A i \in 1..Len(sent[fd]) :
        LET fr == sent[fd][i] IN
        IF IsFullState(fr)
        THEN JsonStrings(fr.payload).ok
        ELSE JsonStrings(fr.payload) = [ok |-> TRUE, strs |-> ExpectedStrings(applied[fr.seq])]

\* C11: the body ApiStateHandler returns is the text GetFullStateJson
\* returns for the store as it is when the request is handled.
C11_ApiBodyIsFullState ==
    [][ApiStateHandler =>
           api_body' = FullStateMsg(RefreshStatusBar(current_state_))]_vars

\* C12: no two entries of the registry hold the same session handle.
C12_RegistryHandlesDistinct ==
    \A i, j \in 1..Len(clients_) : i # j => clients_[i] # clients_[j]

\* C13: a handle that has been registered once is never registered again.
C13_HandleNeverReused ==
    [][\A fd \in Fds :
         WsHandshake(fd) /\ clients_' # clients_ => fd \notin ever_registered]_vars

\* C14: handling a close frame from a registered session removes it from the
\* registry and leaves the entries of every other session as they were; and
\* every send of a broadcast goes to a handle that is in the registry, so a
\* broadcast that starts after the removal sends nothing to the session.
C14_CloseFrameRemoves ==
    /\ [][\A fd \in Fds :
            WsCloseFrame(fd) =>
                /\ fd \notin Range(clients_')
                /\ clients_' = SelectSeq(clients_, LAMBDA c : c # fd)]_vars
    /\ [](\A k \in 1..Len(attempts) : attempts[k][1] \in Range(clients_))

\* a broadcast is sending to the session that stayed registered, after the
\* close frame of another session that is still connected
C14_Witness ==
    /\ log_h = "Client removed"
    /\ attempts # <<>>
    /\ \E fd \in open : fd \notin Range(clients_)
    /\ \E fd \in open : fd \in Range(clients_) /\ sent[fd] # <<>>

\* C15: when httpd_start fails, Start returns false and the server stays
\* not running; after that no send is attempted, every mutating call that has
\* begun can go on to its end, and every completed call has updated the
\* wrapped display and the store. Start on a running server returns true and
\* leaves the transport, its connections and the registry as they are.
C15_StartFailureIsHarmless ==
    /\ [][\A ok \in BOOLEAN :
            Start(ok) /\ server_ = "null" /\ ~ok
                => start_ret' = "false" /\ server_' = "null"]_vars
    /\ [](start_ret = "false" =>
            /\ server_ = "null"
            /\ attempts = <<>>
            /\ (\E t \in Threads : pc[t] # "idle")
                   => ENABLED (\E t \in Threads : BridgeStep(t))
            /\ (\A t \in Threads : pc[t] = "idle")
                   => /\ Len(applied) = ncalls
                      /\ wrapped_display_ => wrapped = applied
                      /\ ncalls > 0 => Reflects(applied[Len(applied)], current_state_))
    /\ [][\A ok \in BOOLEAN :
            Start(ok) /\ server_ # "null"
                => /\ start_ret' = "true"
                   /\ UNCHANGED <<server_, clients_, open, sent>>]_vars

\* Start has failed and a call has completed on a bridge with a display and
\* a server attached
C15_Witness ==
    /\ start_ret = "false"
    /\ wrapped_display_ /\ web_server_
    /\ \A t \in Threads : pc[t] = "idle"
    /\ ncalls > 0
    /\ wrapped = applied
    /\ Reflects(applied[Len(applied)], current_state_)
    /\ \A fd \in Fds : sent[fd] = <<>>

\* C16: SetTheme stores "dark" for a null theme and the theme's name
\* otherwise, and the state_update it emits to every entry of the registry
\* has field "theme" and that value.
C16_SetThemeStoresAndEmits ==
    /\ \A t \in Threads :
           call[t].op = "SetTheme" /\ pc[t] \in {"clients_lock", "send"} =>
               LET name == IF call[t].a = NULL THEN <<"dark">> ELSE call[t].a IN
               /\ current_state_.theme = name
               /\ msg[t] = StateUpdateMsg(<<"theme">>, name)
               /\ pc[t] = "send" /\ idx[t] > Len(clients_) => AttemptedFds = clients_
    /\ \A fd \in Fds : \A i \in 1..Len(sent[fd]) :
           LET fr == sent[fd][i] IN
           IsEvent(fr) /\ applied[fr.seq].op = "SetTheme" =>
               fr.payload = StateUpdateMsg(<<"theme">>,
                                IF applied[fr.seq].a = NULL THEN <<"dark">>
                                ELSE applied[fr.seq].a)
    /\ (\A t \in Threads : pc[t] = "idle")
           /\ applied # <<>> /\ applied[Len(applied)].op = "SetTheme" =>
               current_state_.theme = IF applied[Len(applied)].a = NULL THEN <<"dark">>
                                      ELSE applied[Len(applied)].a

\* SetTheme(nullptr) has returned: the store holds "dark" and a session has
\* received the state_update with value "dark"
C16_Witness ==
    /\ current_state_.theme = <<"dark">>
    /\ applied # <<>>
    /\ applied[Len(applied)].op = "SetTheme" /\ applied[Len(applied)].a = NULL
    /\ wrapped_display_ /\ wrapped[1].op = "SetTheme"
    /\ \E fd \in Fds : \E i \in 1..Len(sent[fd]) :
           sent[fd][i].payload = StateUpdateMsg(<<"theme">>, <<"dark">>)
    /\ \A t \in Threads : pc[t] = "idle"

\* C17: no thread is inside the send loop, or holds clients_mutex_, while it
\* holds state_mutex_.
C17_NoSendUnderStateLock ==
    \A t \in Threads :
        /\ pc[t] = "send" => state_mutex_ # t
        /\ clients_mutex_ = t => state_mutex_ # t

\* C18: SetEmotion stores "neutral" for an empty token and the token itself
\* otherwise, and emits state_update with field "emotion" and that value.
C18_EmptyEmotionIsNeutral ==
    /\ \A t \in Threads :
           call[t].op = "SetEmotion" /\ pc[t] \in {"clients_lock", "send"} =>
               LET token == IF call[t].a \in {NULL, <<>>} THEN <<"neutral">>
                            ELSE call[t].a IN
               /\ current_state_.emotion = token
               /\ msg[t] = StateUpdateMsg(<<"emotion">>, token)
    /\ (\A t \in Threads : pc[t] = "idle")
           /\ applied # <<>> /\ applied[Len(applied)].op = "SetEmotion" =>
               current_state_.emotion =
                   IF applied[Len(applied)].a \in {NULL, <<>>} THEN <<"neutral">>
                   ELSE applied[Len(applied)].a

\* C19: SetPowerSaveMode, SetupUI, Lock and Unlock forward to the wrapped
\* display and change neither the store nor any session's frames; an inbound
\* text frame changes neither the store nor the registry and sends nothing.
C19_PassThroughIsPure ==
    /\ [][\A t \in Threads : \A op \in PassThroughOps :
            PassThrough(t, op) =>
                /\ passed' = Append(passed, op)
                /\ UNCHANGED <<current_state_, current_theme_, applied, wrapped,
                               clients_, sent, attempts, msg>>]_vars
    /\ [][\A fd \in Fds :
            WsTextFrame(fd) =>
                UNCHANGED <<current_state_, applied, clients_, sent, attempts, msg,
                            state_h>>]_vars

\* SetupUI has been forwarded and a text frame handled, after a call changed
\* the store and its event reached a registered session
C19_Witness ==
    /\ passed # <<>> /\ passed[Len(passed)] = "SetupUI"
    /\ log_h = "Received WS message"
    /\ current_state_ # InitialState(NULL)
    /\ \E fd \in Fds : fd \in Range(clients_) /\ sent[fd] # <<>>

\* C20: a connection that AddClient rejected is sent no full_state frame.
C20_RejectedGetsNoFrame ==
    [][\A ok \in BOOLEAN :
         Rejected /\ WsSendInitial(ok) => sent'[fd_h] = sent[fd_h]]_vars

\* an operation is in progress: a mutating call, WsHandler, or Stop
Busy == (\E t \in Threads : pc[t] # "idle") \/ pc_h # "idle" \/ pc_c # "idle"

\* a step of an operation in progress
Progress ==
    \/ \E t \in Threads : BridgeStep(t)
    \/ WsGetState
    \/ \E ok \in BOOLEAN : WsSendInitial(ok)
    \/ StopNull
    \/ StopClear

\* C21: clients_mutex_ is only ever taken by a thread that holds state_mutex_
\* or holds no lock, never the other way round; whenever an operation is in
\* progress some operation in progress can take a step; and every mutating
\* call, every handshake handler and every Stop that has started completes.
C21_NoDeadlock ==
    /\ [](\A t \in Threads :
             /\ clients_mutex_ = t => state_mutex_ = t
             /\ pc[t] = "lock" => clients_mutex_ # t)
    /\ [](Busy => ENABLED Progress)
    /\ \A t \in Threads : (pc[t] # "idle") ~> (pc[t] = "idle")
    /\ (pc_h # "idle") ~> (pc_h = "idle")
    /\ (pc_c # "idle") ~> (pc_c = "idle")

\* one thread is sending under both locks while the other thread and the
\* state callback of a handshake wait for state_mutex_
C21_Witness ==
    /\ pc["t1"] = "send" /\ state_mutex_ = "t1" /\ clients_mutex_ = "t1"
    /\ pc["t2"] = "lock"
    /\ pc_h = "callback" /\ get_state_callback_

\* C22: no send is attempted on a server handle that has been stopped or
\* nulled, and once Stop has returned the server is not running and the
\* registry is empty.
C22_NoSendAfterStop ==
    /\ [][\A t \in Threads : \A ok \in BOOLEAN :
            BroadcastSend(t, ok) => server_ = "running"]_vars
    /\ [][StopClear => server_' = "null" /\ clients_' = <<>>]_vars
    /\ [](pc_c = "idle" /\ server_ = "null" => clients_ = <<>>)

\* the last call of an override in a log of calls, NoCall when there is none
LastOf(log, op) ==
    LET at == {i \in 1..Len(log) : log[i].op = op} IN
    IF at = {} THEN NoCall
    ELSE log[CHOOSE i \in at : \A j \in at : j <= i]

Quiescent == \A t \in Threads : pc[t] = "idle"

\* C23: once every concurrent mutating call has returned, the value last
\* given to the wrapped display for a field is the value in the store and
\* the value of the last event built for that field.
C23_DisplayMatchesStoreAtQuiescence ==
    Quiescent /\ wrapped_display_ =>
        \A op \in {"SetStatus", "SetTheme"} :
            LET shown == LastOf(wrapped, op)
                event == LastOf(applied, op)
            IN  shown # NoCall =>
                    /\ Reflects(shown, current_state_)
                    /\ Reflects(event, current_state_)
====
